---- MODULE Spec2Model ----
(***************************************************************************)
(* Lecture assistant: the ingestion function (lecture_ingest_function) and *)
(* the query backend (lecture-rag-backend).                                *)
(*                                                                         *)
(* Three state machines share this module:                                 *)
(*   - the chunker split_text_into_chunks          (SpecChunk)             *)
(*   - the ingestion handler process_lecture       (SpecIngest)            *)
(*   - the query handler query() with its workers  (SpecQuery)             *)
(*                                                                         *)
(* A Python str is a sequence of one-character strings, so that len,       *)
(* split, strip, join and startswith are computed and not assumed.         *)
(***************************************************************************)
EXTENDS Integers, Sequences, FiniteSets, TLC

VARIABLES
    \* ---- split_text_into_chunks ----
    text,          \* argument text
    max_chars,     \* argument max_chars
    cpc,           \* position in the function: "call", "loop", "done"
    paragraphs,    \* text.split("\n")
    pidx,          \* position of the for loop in paragraphs (1-based)
    chunks,        \* chunks
    current,       \* current
    result,        \* the returned list
    \* ---- process_lecture ----
    ipc,            \* position in the handler
    file_name,      \* event['name']
    lecture_chunks, \* what split_text_into_chunks(text) gives for the document
    tmp_exists,     \* the file at local_path exists
    created,        \* this invocation downloaded the local copy
    failed,         \* the chunk positions whose get_embeddings call raised
    datapoints,     \* datapoints
    batch_i,        \* i of the upsert loop
    sent,           \* the upsert_datapoints calls of this invocation, in order
    index,          \* the vector index: datapoint_id -> stored text restrict
    exit_path,      \* how the invocation ended
    \* ---- the query backend ----
    qpc,                  \* per request: where its coroutine or worker thread is
    vertexai_inited,      \* _vertexai_inited
    vertexai_init_calls,  \* how many vertexai.init calls were executed to the end
    genai_client,         \* _genai_client: 0 is None, k the k-th client built
    genai_client_builds,  \* how many genai.Client objects were constructed
    embed_result,         \* per request: what the embedding worker handed back
    neighbors,            \* per request: what find_neighbors handed back
    context,              \* per request: the context given to construct_gemini_payload
    payload,              \* per request: payload
    client,               \* per request: the client get_gemini_response_full holds
    gen_invocations,      \* per request: calls of get_gemini_response_full
    gen_result,           \* per request: what generate_content handed back
    answer                \* per request: the string of the QueryResponse

cvars == <<text, max_chars, cpc, paragraphs, pidx, chunks, current, result>>

ivars == <<ipc, file_name, lecture_chunks, tmp_exists, created, failed,
           datapoints, batch_i, sent, index, exit_path>>

qvars == <<qpc, vertexai_inited, vertexai_init_calls, genai_client,
           genai_client_builds, embed_result, neighbors, context, payload,
           client, gen_invocations, gen_result, answer>>

vars == <<cvars, ivars, qvars>>

-----------------------------------------------------------------------------
(* Bounds of the model. *)

MaxTextLen == 5
MaxMaxChars == 3
\* process_lecture: documents of 0..MaxChunks chunks (and of one, one and a
\* bit, two and a bit batches); the embedding of a chunk can fail only at the
\* positions below MaxFailPos.
MaxChunks == 3
MaxFailPos == 3
\* the query backend: concurrent requests
MaxRequests == 2

-----------------------------------------------------------------------------
(* Strings. *)

NL == "\n"

\* The characters of the bounded inputs that str.strip() removes.
Whitespace == {" ", NL}

Alphabet == {"a", "b", " ", NL}

Min(a, b) == IF a < b THEN a ELSE b

RECURSIVE Concat(_)
\* "".join(seq)
Concat(seq) == IF seq = <<>> THEN <<>> ELSE Head(seq) \o Concat(Tail(seq))

RECURSIVE JoinNL(_)
\* "\n".join(seq)
JoinNL(seq) ==
    IF seq = <<>> THEN <<>>
    ELSE IF Len(seq) = 1 THEN seq[1]
    ELSE seq[1] \o <<NL>> \o JoinNL(Tail(seq))

RECURSIVE SplitNL(_)
\* s.split("\n"): k separators give k + 1 pieces, the empty string gives [""]
SplitNL(s) ==
    IF \A i \in 1..Len(s) : s[i] # NL THEN <<s>>
    ELSE LET k == CHOOSE i \in 1..Len(s) :
                      s[i] = NL /\ \A j \in 1..(i - 1) : s[j] # NL
         IN  <<SubSeq(s, 1, k - 1)>> \o SplitNL(SubSeq(s, k + 1, Len(s)))

RECURSIVE LStrip(_)
LStrip(s) ==
    IF s = <<>> THEN <<>>
    ELSE IF Head(s) \in Whitespace THEN LStrip(Tail(s)) ELSE s

RECURSIVE RStrip(_)
RStrip(s) ==
    IF s = <<>> THEN <<>>
    ELSE IF s[Len(s)] \in Whitespace THEN RStrip(SubSeq(s, 1, Len(s) - 1)) ELSE s

\* s.strip()
Strip(s) == RStrip(LStrip(s))

StartsWith(s, prefix) ==
    Len(s) >= Len(prefix) /\ SubSeq(s, 1, Len(prefix)) = prefix

HasNL(s) == \E i \in 1..Len(s) : s[i] = NL

\* s with every whitespace character removed
RemoveWhitespace(s) == SelectSeq(s, LAMBDA c : c \notin Whitespace)

-----------------------------------------------------------------------------
(* split_text_into_chunks(text, max_chars)                                 *)

\* The worked example: "aaaaa\nbbbbb\nccccc" with max_chars = 10.
ExampleCall ==
    [text |-> <<"a", "a", "a", "a", "a", "\n", "b", "b", "b", "b", "b", "\n", "c", "c", "c", "c", "c">>,
     max_chars |-> 10]

\* A call with a paragraph longer than max_chars followed by two short ones.
LongParagraphCall ==
    [text |-> <<"a", "a", "a", "a", "\n", "a", "\n", "b">>, max_chars |-> 2]

RECURSIVE TextsOfLen(_)
TextsOfLen(n) ==
    IF n = 0 THEN {<<>>}
    ELSE {Append(t, c) : t \in TextsOfLen(n - 1), c \in Alphabet}

Texts == UNION {TextsOfLen(n) : n \in 0..MaxTextLen}

\* A separator is counted with the paragraph: a plausible off-by-separator check.
ExceedsCountsSeparator(cur, p, m) == Len(cur) + 1 + Len(p) > m

\* The length of the paragraph is left out of the check.
ExceedsIgnoresParagraph(cur, p, m) == Len(cur) > m

\* line 14: len(current) + len(p) > max_chars
Exceeds(cur, p, m) == Len(cur) + Len(p) > m

\* The closing branch forgets the paragraph that did not fit.
LoopBodyDropsParagraph(ch, cur, p, m) ==
    IF Exceeds(cur, p, m)
    THEN [chunks |-> Append(ch, Strip(cur)), current |-> <<>>]
    ELSE [chunks |-> ch, current |-> cur \o <<NL>> \o p]

\* lines 14-18: one iteration of the for loop
LoopBody(ch, cur, p, m) ==
    IF Exceeds(cur, p, m)
    THEN [chunks |-> Append(ch, Strip(cur)), current |-> p]
    ELSE [chunks |-> ch, current |-> cur \o <<NL>> \o p]

\* lines 19-21: flush the last buffer, drop the chunks that are blank
Finish(ch, cur) ==
    LET all == IF cur # <<>> THEN Append(ch, Strip(cur)) ELSE ch
    IN  SelectSeq(all, LAMBDA c : Strip(c) # <<>>)

ChunkIdle ==
    /\ text = <<>>
    /\ max_chars = 0
    /\ cpc = "idle"
    /\ paragraphs = <<>>
    /\ pidx = 1
    /\ chunks = <<>>
    /\ current = <<>>
    /\ result = <<>>

ChunkInit ==
    /\ \/ text \in Texts /\ max_chars \in 0..MaxMaxChars
       \/ \E c \in {ExampleCall, LongParagraphCall} :
              text = c.text /\ max_chars = c.max_chars
    /\ cpc = "call"
    /\ paragraphs = <<>>
    /\ pidx = 1
    /\ chunks = <<>>
    /\ current = <<>>
    /\ result = <<>>

\* lines 11-12
ChunkCall ==
    /\ cpc = "call"
    /\ paragraphs' = SplitNL(text)
    /\ chunks' = <<>>
    /\ current' = <<>>
    /\ pidx' = 1
    /\ cpc' = "loop"
    /\ UNCHANGED <<text, max_chars, result>>
    /\ UNCHANGED <<ivars, qvars>>

\* lines 13-18
ChunkLoop ==
    /\ cpc = "loop"
    /\ pidx <= Len(paragraphs)
    /\ LET st == LoopBody(chunks, current, paragraphs[pidx], max_chars)
       IN  /\ chunks' = st.chunks
           /\ current' = st.current
    /\ pidx' = pidx + 1
    /\ UNCHANGED <<text, max_chars, cpc, paragraphs, result>>
    /\ UNCHANGED <<ivars, qvars>>

\* lines 19-21
ChunkReturn ==
    /\ cpc = "loop"
    /\ pidx > Len(paragraphs)
    /\ result' = Finish(chunks, current)
    /\ cpc' = "done"
    /\ UNCHANGED <<text, max_chars, paragraphs, pidx, chunks, current>>
    /\ UNCHANGED <<ivars, qvars>>

NextChunk == ChunkCall \/ ChunkLoop \/ ChunkReturn

-----------------------------------------------------------------------------
(* process_lecture(event, context)                                         *)

\* line 100
batch_size == 100

PdfName == <<"d", "/", "l", ".", "p", "d", "f">>
OtherName == <<"n", ".", "t", "x", "t">>
PdfSuffix == <<".", "p", "d", "f">>
ChunkInfix == <<"-", "c", "h", "u", "n", "k", "-">>

EndsWith(s, suffix) ==
    Len(s) >= Len(suffix)
        /\ SubSeq(s, Len(s) - Len(suffix) + 1, Len(s)) = suffix

RECURSIVE Basename(_)
\* os.path.basename(path): what follows the last "/"
Basename(path) ==
    IF \A i \in 1..Len(path) : path[i] # "/" THEN path
    ELSE LET k == CHOOSE i \in 1..Len(path) :
                      path[i] = "/" /\ \A j \in 1..(i - 1) : path[j] # "/"
         IN  Basename(SubSeq(path, k + 1, Len(path)))

Digit(d) == <<"0", "1", "2", "3", "4", "5", "6", "7", "8", "9">>[d + 1]

RECURSIVE Decimal(_)
\* str(i) for i >= 0
Decimal(i) == IF i < 10 THEN <<Digit(i)>> ELSE Append(Decimal(i \div 10), Digit(i % 10))

\* line 77: f"{base_id}-chunk-{i}"
DatapointId(base_id, i) == base_id \o ChunkInfix \o Decimal(i)

\* line 81: chunk[:1000]
TextPreview(chunk) == SubSeq(chunk, 1, Min(Len(chunk), 1000))

\* The document: n chunks, pairwise different, none blank.
LectureChunks(n) == [k \in 1..n |-> <<"s">> \o Decimal(k - 1)]

NumChunks == (0..MaxChunks) \cup {batch_size, batch_size + 1, 2 * batch_size + 1}

\* The id is numbered from 1, not from enumerate's 0.
EmbedStepIdFromOne(base_id, i, chunk, ok) ==
    IF ok
    THEN << [datapoint_id |-> DatapointId(base_id, i + 1),
             source_file |-> base_id,
             text |-> TextPreview(chunk)] >>
    ELSE <<>>

\* lines 74-86: one iteration of the embedding loop: what it appends to
\* datapoints; ok is whether model.get_embeddings([chunk])[0].values came
\* back without raising
EmbedStep(base_id, i, chunk, ok) ==
    IF ok
    THEN << [datapoint_id |-> DatapointId(base_id, i),
             source_file |-> base_id,
             text |-> TextPreview(chunk)] >>
    ELSE <<>>

RECURSIVE EmbedRange(_, _, _, _, _)
\* What the iterations lo .. hi - 1 of the embedding loop append, in order
\* (the range is halved to keep the evaluation shallow).
EmbedRange(chs, base_id, fails, lo, hi) ==
    IF lo >= hi THEN <<>>
    ELSE IF hi = lo + 1
    THEN EmbedStep(base_id, lo, chs[lo + 1], lo \notin fails)
    ELSE LET mid == (lo + hi) \div 2
         IN  EmbedRange(chs, base_id, fails, lo, mid)
                 \o EmbedRange(chs, base_id, fails, mid, hi)

\* lines 70-86: datapoints = []; for i, chunk in enumerate(chunks): ...
EmbedLoop(chs, base_id, fails) == EmbedRange(chs, base_id, fails, 0, Len(chs))

\* line 102: datapoints[i : i + batch_size]
Batch(dps, i) == SubSeq(dps, i + 1, Min(i + batch_size, Len(dps)))

\* index.upsert_datapoints(datapoints=batch): insert or overwrite by id
Upsert(idx, batch) ==
    LET ids == {batch[j].datapoint_id : j \in 1..Len(batch)}
    IN  [id \in DOMAIN idx \cup ids |->
            IF id \in ids
            THEN LET j == CHOOSE j \in 1..Len(batch) :
                              batch[j].datapoint_id = id
                                  /\ \A k \in (j + 1)..Len(batch) :
                                         batch[k].datapoint_id # id
                 IN  batch[j].text
            ELSE idx[id]]

EmptyIndex == [id \in {} |-> <<>>]

IngestIdle ==
    /\ ipc = "idle"
    /\ file_name = <<>>
    /\ lecture_chunks = <<>>
    /\ tmp_exists = FALSE
    /\ created = FALSE
    /\ failed = {}
    /\ datapoints = <<>>
    /\ batch_i = 0
    /\ sent = <<>>
    /\ index = EmptyIndex
    /\ exit_path = "none"

IngestInit ==
    /\ ipc = "idle"
    /\ file_name = <<>>
    /\ lecture_chunks \in {LectureChunks(n) : n \in NumChunks}
    /\ tmp_exists = FALSE
    /\ created = FALSE
    /\ failed = {}
    /\ datapoints = <<>>
    /\ batch_i = 0
    /\ sent = <<>>
    /\ index = EmptyIndex
    /\ exit_path = "none"

IngestEnded == ipc \in {"returned", "raised"}

\* lines 24-51: the event arrives; the object is downloaded to local_path
IngestInvoke ==
    /\ ipc = "idle" \/ IngestEnded
    /\ \E name \in {PdfName, OtherName}, env_ok \in BOOLEAN, download_ok \in BOOLEAN :
        /\ file_name' = name
        /\ failed' = {}
        /\ datapoints' = <<>>
        /\ batch_i' = 0
        /\ sent' = <<>>
        /\ IF ~EndsWith(name, PdfSuffix)
           THEN /\ ipc' = "returned"
                /\ exit_path' = "not_pdf"
                /\ created' = FALSE
                /\ UNCHANGED tmp_exists
           ELSE IF ~env_ok
           THEN /\ ipc' = "returned"
                /\ exit_path' = "no_env"
                /\ created' = FALSE
                /\ UNCHANGED tmp_exists
           ELSE IF ~download_ok
           THEN /\ ipc' = "raised"
                /\ exit_path' = "download_failed"
                /\ created' = FALSE
                /\ UNCHANGED tmp_exists
           ELSE /\ ipc' = "extract"
                /\ exit_path' = "none"
                /\ created' = TRUE
                /\ tmp_exists' = TRUE
    /\ UNCHANGED <<lecture_chunks, index>>
    /\ UNCHANGED <<cvars, qvars>>

\* lines 54-64: extraction and chunking
IngestExtract ==
    /\ ipc = "extract"
    /\ \/ /\ ipc' = "init_model"
          /\ UNCHANGED <<tmp_exists, exit_path>>
       \/ \* pdfplumber raised: lines 57-60
          /\ tmp_exists' = FALSE
          /\ ipc' = "returned"
          /\ exit_path' = "extract_failed"
    /\ UNCHANGED <<file_name, lecture_chunks, created, failed, datapoints,
                   batch_i, sent, index>>
    /\ UNCHANGED <<cvars, qvars>>

\* lines 67-68: neither call is inside a try
IngestInitModel ==
    /\ ipc = "init_model"
    /\ \/ /\ ipc' = "embed"
          /\ UNCHANGED exit_path
       \/ /\ ipc' = "raised"
          /\ exit_path' = "model_init_failed"
    /\ UNCHANGED <<file_name, lecture_chunks, tmp_exists, created, failed,
                   datapoints, batch_i, sent, index>>
    /\ UNCHANGED <<cvars, qvars>>

\* lines 70-88: the embedding loop, whole
IngestEmbed ==
    /\ ipc = "embed"
    /\ \E fails \in SUBSET (0..(Min(Len(lecture_chunks), MaxFailPos) - 1)) :
        /\ failed' = fails
        /\ datapoints' = EmbedLoop(lecture_chunks, Basename(file_name), fails)
    /\ ipc' = "check"
    /\ UNCHANGED <<file_name, lecture_chunks, tmp_exists, created, batch_i,
                   sent, index, exit_path>>
    /\ UNCHANGED <<cvars, qvars>>

\* lines 91-94
IngestCheckDatapoints ==
    /\ ipc = "check"
    /\ IF datapoints = <<>>
       THEN /\ tmp_exists' = FALSE
            /\ ipc' = "returned"
            /\ exit_path' = "no_datapoints"
       ELSE /\ ipc' = "connect"
            /\ UNCHANGED <<tmp_exists, exit_path>>
    /\ UNCHANGED <<file_name, lecture_chunks, created, failed, datapoints,
                   batch_i, sent, index>>
    /\ UNCHANGED <<cvars, qvars>>

\* lines 96-100: the index handle; a raise goes to except, then finally
IngestConnectIndex ==
    /\ ipc = "connect"
    /\ \/ /\ ipc' = "upsert"
          /\ batch_i' = 0
          /\ UNCHANGED exit_path
       \/ /\ ipc' = "finally"
          /\ exit_path' = "upsert_failed"
          /\ UNCHANGED batch_i
    /\ UNCHANGED <<file_name, lecture_chunks, tmp_exists, created, failed,
                   datapoints, sent, index>>
    /\ UNCHANGED <<cvars, qvars>>

\* lines 101-104: one iteration of the upsert loop; a raise leaves the loop
\* for except (line 107), then finally
IngestUpsertBatch ==
    /\ ipc = "upsert"
    /\ batch_i < Len(datapoints)
    /\ LET batch == Batch(datapoints, batch_i)
           number == (batch_i \div batch_size) + 1
       IN  \/ /\ index' = Upsert(index, batch)
              /\ sent' = Append(sent, [number |-> number, size |-> Len(batch), ok |-> TRUE])
              /\ batch_i' = batch_i + batch_size
              /\ UNCHANGED <<ipc, exit_path>>
           \/ /\ sent' = Append(sent, [number |-> number, size |-> Len(batch), ok |-> FALSE])
              /\ ipc' = "finally"
              /\ exit_path' = "upsert_failed"
              /\ UNCHANGED <<index, batch_i>>
    /\ UNCHANGED <<file_name, lecture_chunks, tmp_exists, created, failed, datapoints>>
    /\ UNCHANGED <<cvars, qvars>>

\* line 106: the loop is over
IngestUpsertDone ==
    /\ ipc = "upsert"
    /\ batch_i >= Len(datapoints)
    /\ ipc' = "finally"
    /\ exit_path' = "upsert_done"
    /\ UNCHANGED <<file_name, lecture_chunks, tmp_exists, created, failed,
                   datapoints, batch_i, sent, index>>
    /\ UNCHANGED <<cvars, qvars>>

\* lines 109-116
IngestFinally ==
    /\ ipc = "finally"
    /\ tmp_exists' = FALSE
    /\ ipc' = "returned"
    /\ UNCHANGED <<file_name, lecture_chunks, created, failed, datapoints,
                   batch_i, sent, index, exit_path>>
    /\ UNCHANGED <<cvars, qvars>>

NextIngest ==
    \/ IngestInvoke
    \/ IngestExtract
    \/ IngestInitModel
    \/ IngestEmbed
    \/ IngestCheckDatapoints
    \/ IngestConnectIndex
    \/ IngestUpsertBatch
    \/ IngestUpsertDone
    \/ IngestFinally

-----------------------------------------------------------------------------
(* The query backend: POST /api/v1/query.                                  *)
(*                                                                         *)
(* The coroutine of a request runs on the event loop: between two awaits   *)
(* it is one step.  What is handed to asyncio.to_thread runs in a worker   *)
(* thread, which the interpreter may switch away from between statements.  *)

Requests == 1..MaxRequests

NoContextSentinel == <<"N", "o", " ", "r", "e", "l", "e", "v", "a", "n", "t", " ", "c", "o", "n", "t", "e", "x", "t", " ", "f", "o", "u", "n", "d", " ", "v", "i", "a", " ", "V", "e", "r", "t", "e", "x", " ", "A", "I", " ", "V", "e", "c", "t", "o", "r", " ", "S", "e", "a", "r", "c", "h", ".">>
CallFailedPrefix == <<"E", "r", "r", "o", "r", " ", "c", "a", "l", "l", "i", "n", "g", " ", "G", "e", "m", "i", "n", "i", " ", "v", "i", "a", " ", "V", "e", "r", "t", "e", "x", " ", "A", "I", ":", " ">>
ParseFailedAnswer == <<"E", "r", "r", "o", "r", ":", " ", "C", "o", "u", "l", "d", " ", "n", "o", "t", " ", "p", "a", "r", "s", "e", " ", "t", "e", "x", "t", " ", "f", "r", "o", "m", " ", "G", "e", "m", "i", "n", "i", " ", "r", "e", "s", "p", "o", "n", "s", "e", ".">>
ErrorPrefix == <<"E", "r", "r", "o", "r", ":">>
ConnectionErrorPrefix == <<"C", "o", "n", "n", "e", "c", "t", "i", "o", "n", " ", "E", "r", "r", "o", "r", ":">>
UnexpectedErrorPrefix == <<"U", "n", "e", "x", "p", "e", "c", "t", "e", "d", " ", "E", "r", "r", "o", "r", ":">>
NoPriorConversation == <<"(", "n", "o", " ", "p", "r", "i", "o", "r", " ", "c", "o", "n", "v", "e", "r", "s", "a", "t", "i", "o", "n", ")">>
ConversationHeader == <<"C", "o", "n", "v", "e", "r", "s", "a", "t", "i", "o", "n", " ", "s", "o", " ", "f", "a", "r", ":", "\n">>
ContextHeader == <<"\n", "\n", "L", "e", "c", "t", "u", "r", "e", " ", "C", "o", "n", "t", "e", "x", "t", ":", "\n">>
QuestionHeader == <<"\n", "\n", "C", "u", "r", "r", "e", "n", "t", " ", "U", "s", "e", "r", " ", "Q", "u", "e", "s", "t", "i", "o", "n", ":", "\n">>
UserLabel == <<"U", "S", "E", "R">>
AssistantLabel == <<"A", "S", "S", "I", "S", "T", "A", "N", "T">>

\* The fixed system instruction: passed through, never taken apart.
SystemInstruction == "You are a concise and helpful lecture assistant. ..."

\* The request bodies: request r sends PromptOf(r) and HistoryOf(r).
PromptOf(r) == <<"q", Digit(r % 10)>>

HistoryOf(r) ==
    IF r % 2 = 1 THEN <<>>
    ELSE << [role |-> "user", text |-> <<"H", "i">>],
            [role |-> "assistant", text |-> <<"H", "e", "y">>] >>

\* What the generative model and a failing call can hand back.
ModelText == <<"A", ".">>
TimeoutMessage == <<"t", "i", "m", "e", "d", " ", "o", "u", "t">>
CredentialsMessage == <<"n", "o", " ", "c", "r", "e", "d", "e", "n", "t", "i", "a", "l", "s">>

\* What find_neighbors can hand back: a list with one list of neighbours per
\* query; a neighbour carries restricts, each a name and its allow_tokens.
SourceRestrict == [name |-> "source_file", allow_tokens |-> << <<"l">> >>]
TextRestrict(tokens) == [name |-> "text", allow_tokens |-> tokens]
NeighborA == [restricts |-> <<SourceRestrict, TextRestrict(<< <<"a">> >>)>>]
NeighborBC == [restricts |-> <<TextRestrict(<< <<"b">>, <<"c", "d">> >>), SourceRestrict>>]
NeighborNoRestricts == [restricts |-> <<>>]
NeighborNoText == [restricts |-> <<SourceRestrict, TextRestrict(<<>>)>>]

NeighborResults ==
    { <<>>,
      << <<>> >>,
      << <<NeighborNoRestricts, NeighborNoText>> >>,
      << <<NeighborA>> >>,
      << <<NeighborBC, NeighborNoRestricts, NeighborA>> >> }

RECURSIVE RestrictTokens(_)
\* lines 140-143: the tokens of the restricts named "text", in order
RestrictTokens(restricts) ==
    IF restricts = <<>> THEN <<>>
    ELSE (IF Head(restricts).name = "text" THEN Head(restricts).allow_tokens ELSE <<>>)
             \o RestrictTokens(Tail(restricts))

RECURSIVE NeighborTokens(_)
\* lines 136-143: for n in neighbors[0]
NeighborTokens(ns) ==
    IF ns = <<>> THEN <<>>
    ELSE RestrictTokens(Head(ns).restricts) \o NeighborTokens(Tail(ns))

\* lines 134-146: the text snippets of a find_neighbors result
TextSnippets(found) ==
    IF found # <<>> /\ Len(found) > 0 THEN NeighborTokens(found[1]) ELSE <<>>

\* No sentinel: an empty match list gives the empty context.
VectorSearchContextNoSentinel(matched_contexts) == JoinNL(matched_contexts)

\* lines 151-153
VectorSearchContext(matched_contexts) ==
    IF matched_contexts = <<>> THEN NoContextSentinel
    ELSE JoinNL(matched_contexts)

RECURSIVE HistoryLines(_)
\* lines 161-164
HistoryLines(history) ==
    IF history = <<>> THEN <<>>
    ELSE << (IF Head(history).role = "user" THEN UserLabel ELSE AssistantLabel)
                \o <<":", " ">> \o Head(history).text >>
             \o HistoryLines(Tail(history))

\* format_history, lines 157-165
FormatHistory(history) ==
    IF history = <<>> THEN NoPriorConversation
    ELSE JoinNL(HistoryLines(history))

\* construct_gemini_payload, lines 170-196
ConstructGeminiPayload(query, ctx, history) ==
    [contents |-> ConversationHeader \o FormatHistory(history)
                      \o ContextHeader \o ctx
                      \o QuestionHeader \o query \o <<NL>>,
     system_instruction |-> SystemInstruction]

NoPayload == [contents |-> <<>>, system_instruction |-> ""]
NoResult == [kind |-> "none", value |-> <<>>]
NoSearch == [kind |-> "none", found |-> <<>>]

\* lines 239-248: the answer of get_gemini_response_full for what the
\* generate_content call handed back
GeminiAnswer(res) ==
    IF res.kind = "raised" THEN CallFailedPrefix \o res.value
    ELSE IF res.kind = "text" /\ res.value # <<>> THEN res.value
    ELSE ParseFailedAnswer

QueryIdle ==
    /\ qpc = [r \in Requests |-> "off"]
    /\ vertexai_inited = FALSE
    /\ vertexai_init_calls = 0
    /\ genai_client = 0
    /\ genai_client_builds = 0
    /\ embed_result = [r \in Requests |-> "none"]
    /\ neighbors = [r \in Requests |-> NoSearch]
    /\ context = [r \in Requests |-> <<>>]
    /\ payload = [r \in Requests |-> NoPayload]
    /\ client = [r \in Requests |-> 0]
    /\ gen_invocations = [r \in Requests |-> 0]
    /\ gen_result = [r \in Requests |-> NoResult]
    /\ answer = [r \in Requests |-> <<>>]

QueryInit ==
    /\ qpc = [r \in Requests |-> "idle"]
    /\ vertexai_inited = FALSE
    /\ vertexai_init_calls = 0
    /\ genai_client = 0
    /\ genai_client_builds = 0
    /\ embed_result = [r \in Requests |-> "none"]
    /\ neighbors = [r \in Requests |-> NoSearch]
    /\ context = [r \in Requests |-> <<>>]
    /\ payload = [r \in Requests |-> NoPayload]
    /\ client = [r \in Requests |-> 0]
    /\ gen_invocations = [r \in Requests |-> 0]
    /\ gen_result = [r \in Requests |-> NoResult]
    /\ answer = [r \in Requests |-> <<>>]

\* lines 295-297, 149, 84-85: the request arrives; query awaits vector_search,
\* which awaits get_query_embedding, which hands _embed_sync to a worker
QueryReceive(r) ==
    /\ qpc[r] = "idle"
    /\ qpc' = [qpc EXCEPT ![r] = "embed_check"]
    /\ UNCHANGED <<vertexai_inited, vertexai_init_calls, genai_client,
                   genai_client_builds, embed_result, neighbors, context,
                   payload, client, gen_invocations, gen_result, answer>>
    /\ UNCHANGED <<cvars, ivars>>

\* lines 46-47, in the worker: the read of _vertexai_inited
EmbedCheckInited(r) ==
    /\ qpc[r] = "embed_check"
    /\ qpc' = [qpc EXCEPT ![r] = IF vertexai_inited THEN "embed_call" ELSE "embed_init"]
    /\ UNCHANGED <<vertexai_inited, vertexai_init_calls, genai_client,
                   genai_client_builds, embed_result, neighbors, context,
                   payload, client, gen_invocations, gen_result, answer>>
    /\ UNCHANGED <<cvars, ivars>>

\* line 48, in the worker: vertexai.init(...)
EmbedVertexInit(r) ==
    /\ qpc[r] = "embed_init"
    /\ \/ /\ vertexai_init_calls' = vertexai_init_calls + 1
          /\ qpc' = [qpc EXCEPT ![r] = "embed_set"]
          /\ UNCHANGED embed_result
       \/ \* it raised: _embed_sync ends with the exception
          /\ qpc' = [qpc EXCEPT ![r] = "embed_done"]
          /\ embed_result' = [embed_result EXCEPT ![r] = "raised"]
          /\ UNCHANGED vertexai_init_calls
    /\ UNCHANGED <<vertexai_inited, genai_client, genai_client_builds,
                   neighbors, context, payload, client, gen_invocations,
                   gen_result, answer>>
    /\ UNCHANGED <<cvars, ivars>>

\* line 49, in the worker: _vertexai_inited = True
EmbedSetInited(r) ==
    /\ qpc[r] = "embed_set"
    /\ vertexai_inited' = TRUE
    /\ qpc' = [qpc EXCEPT ![r] = "embed_call"]
    /\ UNCHANGED <<vertexai_init_calls, genai_client, genai_client_builds,
                   embed_result, neighbors, context, payload, client,
                   gen_invocations, gen_result, answer>>
    /\ UNCHANGED <<cvars, ivars>>

\* lines 80-82, in the worker: the embedding call hands back a vector, an
\* empty vector, or raises
EmbedCall(r) ==
    /\ qpc[r] = "embed_call"
    /\ \E res \in {"vector", "empty", "raised"} :
           embed_result' = [embed_result EXCEPT ![r] = res]
    /\ qpc' = [qpc EXCEPT ![r] = "embed_done"]
    /\ UNCHANGED <<vertexai_inited, vertexai_init_calls, genai_client,
                   genai_client_builds, neighbors, context, payload, client,
                   gen_invocations, gen_result, answer>>
    /\ UNCHANGED <<cvars, ivars>>

\* get_gemini_client, lines 55-73, with built saying whether genai.Client(...)
\* returns: the client to use, the global after, and whether it raised
GetGeminiClient(global, builds, built) ==
    IF global # 0
    THEN [raised |-> FALSE, global |-> global, builds |-> builds, client |-> global]
    ELSE IF built
    THEN [raised |-> FALSE, global |-> builds + 1, builds |-> builds + 1,
          client |-> builds + 1]
    ELSE [raised |-> TRUE, global |-> global, builds |-> builds, client |-> 0]

\* lines 302-303, 224-240, on the event loop: the payload is built from ctx,
\* get_gemini_response_full is called, fetches the client (outside its try)
\* and hands _call_sync to a worker
StartGeneration(r, ctx) ==
    /\ context' = [context EXCEPT ![r] = ctx]
    /\ payload' = [payload EXCEPT ![r] =
                      ConstructGeminiPayload(PromptOf(r), ctx, HistoryOf(r))]
    /\ gen_invocations' = [gen_invocations EXCEPT ![r] = @ + 1]
    /\ \E built \in BOOLEAN :
           LET got == GetGeminiClient(genai_client, genai_client_builds, built)
           IN  /\ genai_client' = got.global
               /\ genai_client_builds' = got.builds
               /\ client' = [client EXCEPT ![r] = got.client]
               /\ qpc' = [qpc EXCEPT ![r] = IF got.raised THEN "raised" ELSE "gen_call"]

\* lines 86-93, 149-150, 297-300, on the event loop: the worker is back
AfterEmbed(r) ==
    /\ qpc[r] = "embed_done"
    /\ IF embed_result[r] = "vector"
       THEN \* vertex_ai_vector_search_texts hands _find_neighbors_sync to a worker
            /\ qpc' = [qpc EXCEPT ![r] = "search_call"]
            /\ UNCHANGED <<genai_client, genai_client_builds, context, payload,
                           client, gen_invocations>>
       ELSE \* RuntimeError, caught at line 298
            StartGeneration(r, NoContextSentinel)
    /\ UNCHANGED <<vertexai_inited, vertexai_init_calls, embed_result,
                   neighbors, gen_result, answer>>
    /\ UNCHANGED <<cvars, ivars>>

\* lines 119-126, in the worker: find_neighbors hands back a result or raises
SearchCall(r) ==
    /\ qpc[r] = "search_call"
    /\ \E res \in {[kind |-> "found", found |-> f] : f \in NeighborResults}
                      \cup {[kind |-> "raised", found |-> <<>>]} :
           neighbors' = [neighbors EXCEPT ![r] = res]
    /\ qpc' = [qpc EXCEPT ![r] = "search_done"]
    /\ UNCHANGED <<vertexai_inited, vertexai_init_calls, genai_client,
                   genai_client_builds, embed_result, context, payload, client,
                   gen_invocations, gen_result, answer>>
    /\ UNCHANGED <<cvars, ivars>>

\* lines 130-153, 297-300, on the event loop: the worker is back
AfterSearch(r) ==
    /\ qpc[r] = "search_done"
    /\ IF neighbors[r].kind = "raised"
       THEN \* RuntimeError, caught at line 298
            StartGeneration(r, NoContextSentinel)
       ELSE StartGeneration(r, VectorSearchContext(TextSnippets(neighbors[r].found)))
    /\ UNCHANGED <<vertexai_inited, vertexai_init_calls, embed_result,
                   neighbors, gen_result, answer>>
    /\ UNCHANGED <<cvars, ivars>>

\* lines 229-237, in the worker: generate_content hands back a response with
\* a text, one without, or raises.  The coroutine reads none of its locals
\* of the retrieval again (vector, neighbors, context, payload): they are
\* dropped here.
GenCall(r) ==
    /\ qpc[r] = "gen_call"
    /\ \E res \in { [kind |-> "text", value |-> ModelText],
                    [kind |-> "text", value |-> <<>>],
                    [kind |-> "raised", value |-> TimeoutMessage],
                    [kind |-> "raised", value |-> CredentialsMessage] } :
           gen_result' = [gen_result EXCEPT ![r] = res]
    /\ qpc' = [qpc EXCEPT ![r] = "gen_done"]
    /\ embed_result' = [embed_result EXCEPT ![r] = "none"]
    /\ neighbors' = [neighbors EXCEPT ![r] = NoSearch]
    /\ context' = [context EXCEPT ![r] = <<>>]
    /\ payload' = [payload EXCEPT ![r] = NoPayload]
    /\ UNCHANGED <<vertexai_inited, vertexai_init_calls, genai_client,
                   genai_client_builds, client, gen_invocations, answer>>
    /\ UNCHANGED <<cvars, ivars>>

\* lines 241-248, 304, on the event loop: the answer is returned
AfterGen(r) ==
    /\ qpc[r] = "gen_done"
    /\ answer' = [answer EXCEPT ![r] = GeminiAnswer(gen_result[r])]
    /\ qpc' = [qpc EXCEPT ![r] = "done"]
    /\ UNCHANGED <<vertexai_inited, vertexai_init_calls, genai_client,
                   genai_client_builds, embed_result, neighbors, context,
                   payload, client, gen_invocations, gen_result>>
    /\ UNCHANGED <<cvars, ivars>>

NextQuery ==
    \E r \in Requests :
        \/ QueryReceive(r)
        \/ EmbedCheckInited(r)
        \/ EmbedVertexInit(r)
        \/ EmbedSetInited(r)
        \/ EmbedCall(r)
        \/ AfterEmbed(r)
        \/ SearchCall(r)
        \/ AfterSearch(r)
        \/ GenCall(r)
        \/ AfterGen(r)

-----------------------------------------------------------------------------
(* The specifications.                                                     *)

InitChunk == ChunkInit /\ IngestIdle /\ QueryIdle

InitIngest == IngestInit /\ ChunkIdle /\ QueryIdle

InitQuery == QueryInit /\ ChunkIdle /\ IngestIdle

SpecChunk == InitChunk /\ [][NextChunk]_vars

SpecIngest == InitIngest /\ [][NextIngest]_vars

SpecQuery == InitQuery /\ [][NextQuery]_vars

-----------------------------------------------------------------------------
(* Claims about the query backend.                                         *)

HasErrorPrefix(a) ==
    \/ StartsWith(a, ErrorPrefix)
    \/ StartsWith(a, ConnectionErrorPrefix)
    \/ StartsWith(a, UnexpectedErrorPrefix)

\* C1 as stated: whatever the embedding call, the vector search, the
\* construction of the generative client and generate_content do, no
\* exception leaves query(): every request ends with a QueryResponse.
C1_AsStated == \A r \in Requests : qpc[r] # "raised"

\* C2: the context given to construct_gemini_payload is the sentinel when the
\* embedding failed, the search failed or the search gave no text snippet,
\* and the snippets joined by newlines in match order otherwise; and
\* get_gemini_response_full is called exactly once for the request.
C2_ContextAndGeneration ==
    \A r \in Requests :
        /\ qpc[r] \in {"gen_call", "raised"} =>
               /\ context[r] =
                      IF \/ embed_result[r] # "vector"
                         \/ neighbors[r].kind = "raised"
                         \/ TextSnippets(neighbors[r].found) = <<>>
                      THEN NoContextSentinel
                      ELSE JoinNL(TextSnippets(neighbors[r].found))
               /\ neighbors[r].found = << <<NeighborBC, NeighborNoRestricts, NeighborA>> >> =>
                      context[r] = <<"b", "\n", "c", "d", "\n", "a">>
               /\ payload[r] = ConstructGeminiPayload(PromptOf(r), context[r], HistoryOf(r))
        /\ gen_invocations[r] =
               IF qpc[r] \in {"gen_call", "gen_done", "done", "raised"} THEN 1 ELSE 0

\* One request is in generation with the snippets of three neighbours as its
\* context, another with the sentinel after its embedding call raised.
C2_Witness ==
    \E r1, r2 \in Requests :
        /\ qpc[r1] = "gen_call"
        /\ neighbors[r1].found = << <<NeighborBC, NeighborNoRestricts, NeighborA>> >>
        /\ qpc[r2] = "gen_call"
        /\ embed_result[r2] = "raised"
        /\ context[r2] = NoContextSentinel

\* C3 as stated: the answer of a failed generation (the call raised, or the
\* response has no text) starts with "Error:", "Connection Error:" or
\* "Unexpected Error:"; a timeout gives the connection prefix, missing
\* credentials give "Error:".
C3_AsStated ==
    \A r \in Requests :
        (qpc[r] = "done" /\ (gen_result[r].kind = "raised" \/ gen_result[r].value = <<>>)) =>
            /\ HasErrorPrefix(answer[r])
            /\ gen_result[r] = [kind |-> "raised", value |-> TimeoutMessage] =>
                   StartsWith(answer[r], ConnectionErrorPrefix)
            /\ gen_result[r] = [kind |-> "raised", value |-> CredentialsMessage] =>
                   StartsWith(answer[r], ErrorPrefix)

\* C6 as stated: under every interleaving vertexai.init is executed at most
\* once and genai.Client is constructed at most once, every request using the
\* same client.
C6_AsStated ==
    /\ vertexai_init_calls <= 1
    /\ genai_client_builds <= 1
    /\ \A r1, r2 \in Requests :
           (client[r1] # 0 /\ client[r2] # 0) => client[r1] = client[r2]

-----------------------------------------------------------------------------
(* Claims about process_lecture.                                           *)

\* The number of batches that n datapoints make.
NumBatches(n) == (n + batch_size - 1) \div batch_size

\* datapoints holds what the embedding loop of this invocation built.
Embedded ==
    \/ ipc \in {"check", "connect", "upsert", "finally"}
    \/ ipc = "returned" /\ exit_path \in {"no_datapoints", "upsert_done", "upsert_failed"}

\* C4 as stated: the batches are sent in order, each of at most 100 records;
\* when the upsert of batch k fails every later batch is still attempted; the
\* records of a batch that succeeded stay in the index.
C4_AsStated ==
    /\ \A k \in 1..Len(sent) :
           /\ sent[k].number = k
           /\ sent[k].size <= batch_size
    /\ ipc = "returned" =>
           \A k \in 1..Len(sent) :
               ~sent[k].ok =>
                   \A b \in (sent[k].number + 1)..NumBatches(Len(datapoints)) :
                       \E m \in 1..Len(sent) : sent[m].number = b
    /\ \A k \in 1..Len(sent) :
           sent[k].ok =>
               \A j \in 1..sent[k].size :
                   datapoints[(sent[k].number - 1) * batch_size + j].datapoint_id
                       \in DOMAIN index

\* C5 as stated: when an invocation that downloaded the local copy ends, by
\* return or by an exception, the copy is gone.
C5_AsStated == (IngestEnded /\ created) => ~tmp_exists

\* C9: a failed embedding skips its chunk only; the records are one per
\* embedded chunk, in chunk order, with the id "{base_id}-chunk-{i}" of the
\* chunk's position i among all chunks; whatever was ingested before, the
\* index holds under the id of chunk i the text of chunk i and nothing else.
C9_StableRecordIds ==
    LET n == Len(lecture_chunks)
        nf == Cardinality(failed)
    IN  /\ Embedded =>
               /\ Len(datapoints) = n - nf
               /\ \A j \in 1..Len(datapoints) :
                      \E i \in (j - 1)..(j - 1 + nf) :
                          /\ i < n
                          /\ i \notin failed
                          /\ Cardinality({f \in failed : f < i}) = i - (j - 1)
                          /\ datapoints[j].datapoint_id = DatapointId(Basename(file_name), i)
                          /\ datapoints[j].text = TextPreview(lecture_chunks[i + 1])
        /\ DOMAIN index \subseteq {DatapointId(Basename(PdfName), i) : i \in 0..(n - 1)}
        /\ \A i \in 0..(n - 1) :
               LET id == DatapointId(Basename(PdfName), i)
               IN  id \in DOMAIN index => index[id] = TextPreview(lecture_chunks[i + 1])

\* The document was ingested before, and this time the embedding of a chunk
\* that is in the index failed while a later chunk was embedded and upserted.
C9_Witness ==
    /\ ipc = "returned"
    /\ exit_path = "upsert_done"
    /\ \E i \in failed :
           /\ DatapointId(Basename(file_name), i) \in DOMAIN index
           /\ \E j \in 1..Len(datapoints) :
                  datapoints[j].datapoint_id = DatapointId(Basename(file_name), i + 1)

-----------------------------------------------------------------------------
(* Claims about split_text_into_chunks.                                    *)

ChunkDone == cpc = "done"

Lines(c) == SplitNL(c)

\* C7 as stated: split_text_into_chunks("aaaaa\nbbbbb\nccccc", 10) returns
\* ["aaaaa", "bbbbb", "ccccc"], and two neighbouring paragraphs of one chunk
\* never have a combined length, separator included, above max_chars.
C7_AsStated ==
    ChunkDone =>
        /\ (text = ExampleCall.text /\ max_chars = ExampleCall.max_chars) =>
               result = << <<"a", "a", "a", "a", "a">>,
                           <<"b", "b", "b", "b", "b">>,
                           <<"c", "c", "c", "c", "c">> >>
        /\ \A k \in 1..Len(result) :
               LET ls == Lines(result[k])
               IN  \A i \in 1..(Len(ls) - 1) :
                       Len(ls[i]) + 1 + Len(ls[i + 1]) <= max_chars

\* C7 amended: the check is len(current) + len(p) > max_chars, the separator
\* not counted: the example returns ["aaaaa", "bbbbb\nccccc"], and two
\* paragraphs of one chunk never have a combined length, separator excluded,
\* above max_chars.
C7_SeparatorNotCounted ==
    ChunkDone =>
        /\ (text = ExampleCall.text /\ max_chars = ExampleCall.max_chars) =>
               result = << <<"a", "a", "a", "a", "a">>,
                           <<"b", "b", "b", "b", "b", "\n", "c", "c", "c", "c", "c">> >>
        /\ \A k \in 1..Len(result) :
               LET ls == Lines(result[k])
               IN  \A i \in 1..Len(ls) : \A j \in (i + 1)..Len(ls) :
                       Len(ls[i]) + Len(ls[j]) <= max_chars

C7_Witness ==
    /\ ChunkDone
    /\ text = ExampleCall.text
    /\ max_chars = ExampleCall.max_chars
    /\ Len(result) = 2
    /\ HasNL(result[2])

\* C8: for max_chars >= 1 the chunks, concatenated in order and with the
\* whitespace removed, are the input with the whitespace removed; no chunk is
\* blank; a blank input returns the empty list.
C8_NothingLost ==
    (ChunkDone /\ max_chars >= 1) =>
        /\ RemoveWhitespace(Concat(result)) = RemoveWhitespace(text)
        /\ \A k \in 1..Len(result) : Strip(result[k]) # <<>>
        /\ (Strip(text) = <<>> => result = <<>>)

C8_Witness ==
    /\ ChunkDone
    /\ max_chars >= 1
    /\ Len(result) >= 2
    /\ result[1] # result[2]
    /\ Len(text) > Len(Concat(result))

\* C10: a chunk is at most max_chars + 1 long unless it is one paragraph that
\* is itself longer than max_chars, and a paragraph longer than max_chars is
\* never in a buffer (or a chunk) with another paragraph.
C10_LengthBound ==
    /\ cpc \in {"loop", "done"} =>
           /\ Len(current) <= max_chars + 1
                  \/ (~HasNL(current) /\ Len(current) > max_chars)
           /\ HasNL(current) =>
                  \A i \in 1..Len(Lines(current)) :
                      Len(Lines(current)[i]) <= max_chars
    /\ ChunkDone =>
           \A k \in 1..Len(result) :
               /\ Len(result[k]) <= max_chars + 1
                      \/ (~HasNL(result[k]) /\ Len(result[k]) > max_chars)
               /\ HasNL(result[k]) =>
                      \A i \in 1..Len(Lines(result[k])) :
                          Len(Lines(result[k])[i]) <= max_chars

C10_Witness ==
    /\ ChunkDone
    /\ \E k \in 1..Len(result) :
           HasNL(result[k]) /\ Len(result[k]) = max_chars + 1
    /\ \E k \in 1..Len(result) :
           ~HasNL(result[k]) /\ Len(result[k]) > max_chars + 1

====
